---- MODULE Spec2Model ----
(***************************************************************************)
(* Model of the auth-adapter route handlers (src/src/routes.rs).           *)
(*                                                                         *)
(* The store is the four tables the handlers reach through sea_orm.  Each  *)
(* request is handled by its own task; a handler's suspension points are   *)
(* its storage calls (.await), so a handler that looks a record up and     *)
(* then commits is two steps, and other requests may run in between.       *)
(* Every storage call may fail (Err(DbErr)): the flag `ok` of a step.      *)
(***************************************************************************)
EXTENDS Integers, Sequences, FiniteSets, TLC

\* Option::None, SQL NULL, and a key missing from the query HashMap.
NONE == "none"

\* ---------------------------------------------------------------- domains
\* Requests in flight at the same time.
MaxInFlight == 2
Procs == 1..MaxInFlight

UserIds == {"u1", "u2"}
Names == {"Al", "Bob", "Cy"}
Emails == {"a@x.com", "b@x.com"}
Stamps == {"t1", "t2"}
Images == {"img"}
Providers == {"google", "github"}
\* Account ids and provider account ids are both strings of the same kind.
AccountIdOrder == <<"41", "42">>
AccountIds == {AccountIdOrder[i] : i \in 1..Len(AccountIdOrder)}
SessionIds == {"s1", "s2"}
SessionTokens == {"tokA", "tokB"}
TokenIds == {"v1", "v2"}
Identifiers == {"a@x.com", "b@x.com"}

Opt(S) == S \cup {NONE}

\* ---------------------------------------------------------------- state
VARIABLES users, accounts, sessions, tokens, task, actor

\* task[p] is the request task p handles (or handled last); actor is the
\* task that took the latest step.
vars == <<users, accounts, sessions, tokens, task, actor>>
store == <<users, accounts, sessions, tokens>>

\* The query parameters a request may carry (absent ones are NONE).
EmptyQuery ==
  [id |-> NONE, email |-> NONE, provider |-> NONE, provider_account_id |-> NONE,
   name |-> NONE, sessionToken |-> NONE]

NoRow == [id |-> NONE]
NoBody == [kind |-> NONE, users |-> {}]

\* A task that has not handled any request yet.
FreshTask ==
  [op |-> NONE, pc |-> "idle", query |-> EmptyQuery, form |-> NoRow,
   found |-> NoRow, call |-> NONE, look |-> NONE, commit |-> NONE,
   resp |-> 0, body |-> NoBody]

\* HTTP status codes the handlers answer with.
OK == 200
CREATED == 201
NO_CONTENT == 204
NOT_FOUND == 404
UNPROCESSABLE_ENTITY == 422
INTERNAL_SERVER_ERROR == 500

\* A request enters a handler: the extractors have decoded query and payload.
Begin(op, query, form) ==
  [FreshTask EXCEPT !.op = op, !.query = query, !.form = form]

\* ---------------------------------------------------------------- storage
\* Outcome of a lookup call: Err, Ok(None) or Ok(Some(row)).
LookOutcome(ok, rows) ==
  IF ~ok THEN "err" ELSE IF rows = {} THEN "empty" ELSE "found"

\* Entity::find_by_id(id).one(): the row with that primary key.
FindById(table, id) == {r \in table : r.id = id}

\* ActiveModel::insert: the table's primary key is unique.
CanInsert(table, row) == FindById(table, row.id) = {}

\* ActiveModel::update writes the columns that are Set, in the row whose
\* primary key is the active model's; no row with that key is an error.
CanUpdate(table, pk) == FindById(table, pk) # {}

\* Model::delete: DELETE ... WHERE pk = row.id.
DeleteRow(table, row) == {r \in table : r.id # row.id}

\* ---------------------------------------------------------------- users
UserRows ==
  [id : UserIds, name : Opt(Names), email : Opt(Emails),
   email_verified : Opt(Stamps), image : Opt(Images)]

\* A create that answers 201 without storing the record.
create_user_NoInsert(p, payload, ok) ==
  /\ task[p].pc = "idle"
  /\ actor' = p
  /\ LET done == ok /\ CanInsert(users, payload) IN
     /\ users' = users
     /\ task' = [task EXCEPT ![p] =
          [Begin("create_user", EmptyQuery, payload) EXCEPT
             !.call = "user.insert",
             !.commit = IF done THEN "ok" ELSE "err",
             !.resp = IF done THEN CREATED ELSE INTERNAL_SERVER_ERROR]]
  /\ UNCHANGED <<accounts, sessions, tokens>>

\* create_user: insert the payload, 201 or 500.
create_user(p, payload, ok) ==
  /\ task[p].pc = "idle"
  /\ actor' = p
  /\ LET done == ok /\ CanInsert(users, payload) IN
     /\ users' = IF done THEN users \cup {payload} ELSE users
     /\ task' = [task EXCEPT ![p] =
          [Begin("create_user", EmptyQuery, payload) EXCEPT
             !.call = "user.insert",
             !.commit = IF done THEN "ok" ELSE "err",
             !.resp = IF done THEN CREATED ELSE INTERNAL_SERVER_ERROR]]
  /\ UNCHANGED <<accounts, sessions, tokens>>

\* The fields update_user copies from the form when they are Some.
SetIfSome(old, new) == IF new # NONE THEN new ELSE old

\* An update that writes every form column, present or not.
ApplyUserForm_Overwrite(row, form) ==
  [row EXCEPT !.name = form.name, !.email = form.email,
              !.email_verified = form.email_verified, !.image = form.image]

\* The columns update_user marks Set on the active model, applied to a row.
ApplyUserForm(row, form) ==
  [row EXCEPT !.name = SetIfSome(row.name, form.name),
              !.email = SetIfSome(row.email, form.email),
              !.email_verified = SetIfSome(row.email_verified, form.email_verified),
              !.image = SetIfSome(row.image, form.image)]

\* update_user up to its first await: the key check and the lookup.
update_user(p, query, form, ok) ==
  /\ task[p].pc = "idle"
  /\ actor' = p
  /\ LET t == Begin("update_user", query, form) IN
     IF query.id = NONE
     THEN task' = [task EXCEPT ![p] = [t EXCEPT !.resp = UNPROCESSABLE_ENTITY]]
     ELSE LET rows == IF ok THEN FindById(users, query.id) ELSE {}
              t1 == [t EXCEPT !.call = "user.find_by_id",
                              !.look = LookOutcome(ok, rows)]
          IN IF rows # {}
             THEN task' = [task EXCEPT ![p] =
                    [t1 EXCEPT !.pc = "commit", !.found = CHOOSE r \in rows : TRUE]]
             ELSE task' = [task EXCEPT ![p] = [t1 EXCEPT !.resp = NOT_FOUND]]
  /\ UNCHANGED store

\* A commit that saves the loaded row: inserted again when it is gone.
update_user_commit_Upsert(p, ok) ==
  /\ task[p].pc = "commit"
  /\ actor' = p
  /\ task[p].op = "update_user"
  /\ LET t == task[p]
         pk == t.found.id
     IN
     /\ users' = IF ok
                 THEN {r \in users : r.id # pk} \cup {ApplyUserForm(t.found, t.form)}
                 ELSE users
     /\ task' = [task EXCEPT ![p] =
          [t EXCEPT !.pc = "idle",
                    !.commit = IF ok THEN "ok" ELSE "err",
                    !.resp = IF ok THEN OK ELSE INTERNAL_SERVER_ERROR]]
  /\ UNCHANGED <<accounts, sessions, tokens>>

\* A commit guarded by a version check: refused when the row has changed
\* since the lookup.
update_user_commit_Versioned(p, ok) ==
  /\ task[p].pc = "commit"
  /\ actor' = p
  /\ task[p].op = "update_user"
  /\ LET t == task[p]
         pk == t.found.id
         done == ok /\ t.found \in users
     IN
     /\ users' = IF done
                 THEN {IF r.id = pk THEN ApplyUserForm(r, t.form) ELSE r : r \in users}
                 ELSE users
     /\ task' = [task EXCEPT ![p] =
          [t EXCEPT !.pc = "idle",
                    !.commit = IF done THEN "ok" ELSE "err",
                    !.resp = IF done THEN OK ELSE INTERNAL_SERVER_ERROR]]
  /\ UNCHANGED <<accounts, sessions, tokens>>

\* A commit that addresses the row named by the form's id.
update_user_commit_FormKey(p, ok) ==
  /\ task[p].pc = "commit"
  /\ actor' = p
  /\ task[p].op = "update_user"
  /\ LET t == task[p]
         pk == t.form.id
         done == ok /\ CanUpdate(users, pk)
     IN
     /\ users' = IF done
                 THEN {IF r.id = pk THEN ApplyUserForm(r, t.form) ELSE r : r \in users}
                 ELSE users
     /\ task' = [task EXCEPT ![p] =
          [t EXCEPT !.pc = "idle",
                    !.commit = IF done THEN "ok" ELSE "err",
                    !.resp = IF done THEN OK ELSE INTERNAL_SERVER_ERROR]]
  /\ UNCHANGED <<accounts, sessions, tokens>>

\* update_user from user.update(): the UPDATE of the Set columns.
update_user_commit(p, ok) ==
  /\ task[p].pc = "commit"
  /\ actor' = p
  /\ task[p].op = "update_user"
  /\ LET t == task[p]
         pk == t.found.id
         done == ok /\ CanUpdate(users, pk)
     IN
     /\ users' = IF done
                 THEN {IF r.id = pk THEN ApplyUserForm(r, t.form) ELSE r : r \in users}
                 ELSE users
     /\ task' = [task EXCEPT ![p] =
          [t EXCEPT !.pc = "idle",
                    !.commit = IF done THEN "ok" ELSE "err",
                    !.resp = IF done THEN OK ELSE INTERNAL_SERVER_ERROR]]
  /\ UNCHANGED <<accounts, sessions, tokens>>

\* An idempotent delete: a key that selects nothing is answered OK.
delete_user_Idempotent(p, query, ok) ==
  /\ task[p].pc = "idle"
  /\ actor' = p
  /\ LET t == Begin("delete_user", query, NoRow) IN
     IF query.id = NONE
     THEN task' = [task EXCEPT ![p] = [t EXCEPT !.resp = UNPROCESSABLE_ENTITY]]
     ELSE LET rows == IF ok THEN FindById(users, query.id) ELSE {}
              t1 == [t EXCEPT !.call = "user.find_by_id",
                              !.look = LookOutcome(ok, rows)]
          IN IF rows # {}
             THEN task' = [task EXCEPT ![p] =
                    [t1 EXCEPT !.pc = "commit", !.found = CHOOSE r \in rows : TRUE]]
             ELSE task' = [task EXCEPT ![p] = [t1 EXCEPT !.resp = OK]]
  /\ UNCHANGED store

\* delete_user up to its first await: the key check and the lookup.
delete_user(p, query, ok) ==
  /\ task[p].pc = "idle"
  /\ actor' = p
  /\ LET t == Begin("delete_user", query, NoRow) IN
     IF query.id = NONE
     THEN task' = [task EXCEPT ![p] = [t EXCEPT !.resp = UNPROCESSABLE_ENTITY]]
     ELSE LET rows == IF ok THEN FindById(users, query.id) ELSE {}
              t1 == [t EXCEPT !.call = "user.find_by_id",
                              !.look = LookOutcome(ok, rows)]
          IN IF rows # {}
             THEN task' = [task EXCEPT ![p] =
                    [t1 EXCEPT !.pc = "commit", !.found = CHOOSE r \in rows : TRUE]]
             ELSE task' = [task EXCEPT ![p] = [t1 EXCEPT !.resp = NOT_FOUND]]
  /\ UNCHANGED store

\* A delete that takes the user's accounts and sessions along.
delete_user_commit_Cascade(p, ok) ==
  /\ task[p].pc = "commit"
  /\ actor' = p
  /\ task[p].op = "delete_user"
  /\ LET t == task[p] IN
     /\ users' = IF ok THEN DeleteRow(users, t.found) ELSE users
     /\ accounts' = IF ok THEN {a \in accounts : a.user_id # t.found.id} ELSE accounts
     /\ sessions' = IF ok THEN {x \in sessions : x.user_id # t.found.id} ELSE sessions
     /\ task' = [task EXCEPT ![p] =
          [t EXCEPT !.pc = "idle",
                    !.commit = IF ok THEN "ok" ELSE "err",
                    !.resp = IF ok THEN OK ELSE INTERNAL_SERVER_ERROR]]
  /\ UNCHANGED tokens

\* delete_user from user.delete().
delete_user_commit(p, ok) ==
  /\ task[p].pc = "commit"
  /\ actor' = p
  /\ task[p].op = "delete_user"
  /\ LET t == task[p] IN
     /\ users' = IF ok THEN DeleteRow(users, t.found) ELSE users
     /\ task' = [task EXCEPT ![p] =
          [t EXCEPT !.pc = "idle",
                    !.commit = IF ok THEN "ok" ELSE "err",
                    !.resp = IF ok THEN OK ELSE INTERNAL_SERVER_ERROR]]
  /\ UNCHANGED <<accounts, sessions, tokens>>

\* ---------------------------------------------------------------- accounts
AccountRows ==
  [id : AccountIds, provider : Providers, provider_account_id : AccountIds,
   user_id : UserIds]

\* create_account: insert the payload, 201 or 500.
create_account(p, payload, ok) ==
  /\ task[p].pc = "idle"
  /\ actor' = p
  /\ LET done == ok /\ CanInsert(accounts, payload) IN
     /\ accounts' = IF done THEN accounts \cup {payload} ELSE accounts
     /\ task' = [task EXCEPT ![p] =
          [Begin("create_account", EmptyQuery, payload) EXCEPT
             !.call = "account.insert",
             !.commit = IF done THEN "ok" ELSE "err",
             !.resp = IF done THEN CREATED ELSE INTERNAL_SERVER_ERROR]]
  /\ UNCHANGED <<users, sessions, tokens>>

\* delete_account that goes on to the lookup when only one key is missing.
delete_account_EitherKey(p, query, ok) ==
  /\ task[p].pc = "idle"
  /\ actor' = p
  /\ LET t == Begin("delete_account", query, NoRow) IN
     IF query.id = NONE /\ query.name = NONE
     THEN task' = [task EXCEPT ![p] = [t EXCEPT !.resp = UNPROCESSABLE_ENTITY]]
     ELSE LET rows == IF ok
                      THEN {a \in accounts : /\ a.provider_account_id = query.id
                                             /\ a.provider = query.name}
                      ELSE {}
              t1 == [t EXCEPT !.call = "account.find.provider_account_id+provider",
                              !.look = LookOutcome(ok, rows)]
          IN IF rows # {}
             THEN \E r \in rows : task' = [task EXCEPT ![p] =
                    [t1 EXCEPT !.pc = "commit", !.found = r]]
             ELSE task' = [task EXCEPT ![p] = [t1 EXCEPT !.resp = NOT_FOUND]]
  /\ UNCHANGED store

\* delete_account up to its first await: both keys, then the lookup by
\* (provider_account_id, provider); .one() takes any one matching row.
delete_account(p, query, ok) ==
  /\ task[p].pc = "idle"
  /\ actor' = p
  /\ LET t == Begin("delete_account", query, NoRow) IN
     IF query.id = NONE \/ query.name = NONE
     THEN task' = [task EXCEPT ![p] = [t EXCEPT !.resp = UNPROCESSABLE_ENTITY]]
     ELSE LET rows == IF ok
                      THEN {a \in accounts : /\ a.provider_account_id = query.id
                                             /\ a.provider = query.name}
                      ELSE {}
              t1 == [t EXCEPT !.call = "account.find.provider_account_id+provider",
                              !.look = LookOutcome(ok, rows)]
          IN IF rows # {}
             THEN \E r \in rows : task' = [task EXCEPT ![p] =
                    [t1 EXCEPT !.pc = "commit", !.found = r]]
             ELSE task' = [task EXCEPT ![p] = [t1 EXCEPT !.resp = NOT_FOUND]]
  /\ UNCHANGED store

\* delete_account from account.delete().
delete_account_commit(p, ok) ==
  /\ task[p].pc = "commit"
  /\ actor' = p
  /\ task[p].op = "delete_account"
  /\ LET t == task[p] IN
     /\ accounts' = IF ok THEN DeleteRow(accounts, t.found) ELSE accounts
     /\ task' = [task EXCEPT ![p] =
          [t EXCEPT !.pc = "idle",
                    !.commit = IF ok THEN "ok" ELSE "err",
                    !.resp = IF ok THEN OK ELSE INTERNAL_SERVER_ERROR]]
  /\ UNCHANGED <<users, sessions, tokens>>

\* ---------------------------------------------------------------- get_users
\* find_with_related(user::Entity): the users an account row joins to.
RelatedUsers(a) == {u \in users : u.id = a.user_id}

\* Position of an account id in the primary-key order of the result rows.
IdRank(id) == CHOOSE i \in 1..Len(AccountIdOrder) : AccountIdOrder[i] = id

\* result.first(): find_with_related orders the rows by the account's key.
FirstAccount(rows) == CHOOSE a \in rows : \A b \in rows : IdRank(a.id) <= IdRank(b.id)

Single(u) == [kind |-> "Single", users |-> {u}]
Multiple(us) == [kind |-> "Multiple", users |-> us]

\* What a lookup of get_users answers: the storage call, its outcome, the
\* status and the body.
Answer(call, look, resp, body) ==
  [call |-> call, look |-> look, resp |-> resp, body |-> body]

\* The id and email branches: one row or none; an Err is answered 204 too.
OneUser(call, ok, rows) ==
  IF ok /\ rows # {}
  THEN {Answer(call, "found", OK, Single(u)) : u \in rows}
  ELSE {Answer(call, LookOutcome(ok, rows), NO_CONTENT, NoBody)}

\* The three account branches: the users of the first row; an Err is 500.
UsersOfFirst(call, ok, rows) ==
  IF ~ok THEN {Answer(call, "err", INTERNAL_SERVER_ERROR, NoBody)}
  ELSE IF rows = {} THEN {Answer(call, "empty", NO_CONTENT, NoBody)}
  ELSE {Answer(call, "found", OK, Multiple(RelatedUsers(FirstAccount(rows))))}

\* A list-all that answers an empty table with 204 instead of an empty list.
AllUsers_EmptyIsNoContent(call, ok) ==
  IF ok /\ users # {} THEN {Answer(call, "found", OK, Multiple(users))}
  ELSE {Answer(call, LookOutcome(ok, users), NO_CONTENT, NoBody)}

\* The last branch: every user; an Err is answered 204.
AllUsers(call, ok) ==
  IF ok THEN {Answer(call, "found", OK, Multiple(users))}
  ELSE {Answer(call, "err", NO_CONTENT, NoBody)}

\* The chain of get_users with the email test ahead of the id test.
GetUsersAnswers_EmailFirst(q, ok) ==
  IF q.email # NONE
  THEN OneUser("user.find.email", ok, {u \in users : u.email = q.email})
  ELSE IF q.id # NONE
  THEN OneUser("user.find_by_id", ok, FindById(users, q.id))
  ELSE IF q.provider_account_id # NONE /\ q.provider # NONE
  THEN UsersOfFirst("account.find.id+provider", ok,
         {a \in accounts : a.id = q.provider_account_id /\ a.provider = q.provider})
  ELSE IF q.provider_account_id # NONE
  THEN UsersOfFirst("account.find.id", ok,
         {a \in accounts : a.id = q.provider_account_id})
  ELSE IF q.provider # NONE
  THEN UsersOfFirst("account.find.provider", ok,
         {a \in accounts : a.provider = q.provider})
  ELSE AllUsers("user.find.all", ok)

\* The if / else-if chain of get_users.
GetUsersAnswers(q, ok) ==
  IF q.id # NONE
  THEN OneUser("user.find_by_id", ok, FindById(users, q.id))
  ELSE IF q.email # NONE
  THEN OneUser("user.find.email", ok, {u \in users : u.email = q.email})
  ELSE IF q.provider_account_id # NONE /\ q.provider # NONE
  THEN UsersOfFirst("account.find.id+provider", ok,
         {a \in accounts : a.id = q.provider_account_id /\ a.provider = q.provider})
  ELSE IF q.provider_account_id # NONE
  THEN UsersOfFirst("account.find.id", ok,
         {a \in accounts : a.id = q.provider_account_id})
  ELSE IF q.provider # NONE
  THEN UsersOfFirst("account.find.provider", ok,
         {a \in accounts : a.provider = q.provider})
  ELSE AllUsers("user.find.all", ok)

\* get_users: one storage call, chosen by the criteria present.
get_users(p, query, ok) ==
  /\ task[p].pc = "idle"
  /\ actor' = p
  /\ \E a \in GetUsersAnswers(query, ok) :
       task' = [task EXCEPT ![p] =
         [Begin("get_users", query, NoRow) EXCEPT
            !.call = a.call, !.look = a.look, !.resp = a.resp, !.body = a.body]]
  /\ UNCHANGED store

\* ---------------------------------------------------------------- sessions
SessionRows ==
  [id : SessionIds, session_token : SessionTokens, user_id : UserIds,
   expires : Stamps]

\* create_session: insert the payload, 201 or 500.
create_session(p, payload, ok) ==
  /\ task[p].pc = "idle"
  /\ actor' = p
  /\ LET done == ok /\ CanInsert(sessions, payload) IN
     /\ sessions' = IF done THEN sessions \cup {payload} ELSE sessions
     /\ task' = [task EXCEPT ![p] =
          [Begin("create_session", EmptyQuery, payload) EXCEPT
             !.call = "session.insert",
             !.commit = IF done THEN "ok" ELSE "err",
             !.resp = IF done THEN CREATED ELSE INTERNAL_SERVER_ERROR]]
  /\ UNCHANGED <<users, accounts, tokens>>

\* update_session up to its first await: the key it reads is "id", and the
\* lookup is find_by_id.
update_session(p, query, form, ok) ==
  /\ task[p].pc = "idle"
  /\ actor' = p
  /\ LET t == Begin("update_session", query, form) IN
     IF query.id = NONE
     THEN task' = [task EXCEPT ![p] = [t EXCEPT !.resp = UNPROCESSABLE_ENTITY]]
     ELSE LET rows == IF ok THEN FindById(sessions, query.id) ELSE {}
              t1 == [t EXCEPT !.call = "session.find_by_id",
                              !.look = LookOutcome(ok, rows)]
          IN IF rows # {}
             THEN task' = [task EXCEPT ![p] =
                    [t1 EXCEPT !.pc = "commit", !.found = CHOOSE r \in rows : TRUE]]
             ELSE task' = [task EXCEPT ![p] = [t1 EXCEPT !.resp = NOT_FOUND]]
  /\ UNCHANGED store

\* The active model update_session builds: all four columns Set from the form.
ApplySessionForm(row, form) ==
  [row EXCEPT !.user_id = form.user_id, !.expires = form.expires,
              !.session_token = form.session_token]

\* update_session from session.update(): id is Set to form.id, so the UPDATE
\* addresses the row whose primary key is form.id.
update_session_commit(p, ok) ==
  /\ task[p].pc = "commit"
  /\ actor' = p
  /\ task[p].op = "update_session"
  /\ LET t == task[p]
         pk == t.form.id
         done == ok /\ CanUpdate(sessions, pk)
     IN
     /\ sessions' = IF done
                    THEN {IF r.id = pk THEN ApplySessionForm(r, t.form) ELSE r : r \in sessions}
                    ELSE sessions
     /\ task' = [task EXCEPT ![p] =
          [t EXCEPT !.pc = "idle",
                    !.commit = IF done THEN "ok" ELSE "err",
                    !.resp = IF done THEN OK ELSE INTERNAL_SERVER_ERROR]]
  /\ UNCHANGED <<users, accounts, tokens>>

\* delete_session up to its first await: the key is "sessionToken".
delete_session(p, query, ok) ==
  /\ task[p].pc = "idle"
  /\ actor' = p
  /\ LET t == Begin("delete_session", query, NoRow) IN
     IF query.sessionToken = NONE
     THEN task' = [task EXCEPT ![p] = [t EXCEPT !.resp = UNPROCESSABLE_ENTITY]]
     ELSE LET rows == IF ok
                      THEN {s \in sessions : s.session_token = query.sessionToken}
                      ELSE {}
              t1 == [t EXCEPT !.call = "session.find.session_token",
                              !.look = LookOutcome(ok, rows)]
          IN IF rows # {}
             THEN \E r \in rows : task' = [task EXCEPT ![p] =
                    [t1 EXCEPT !.pc = "commit", !.found = r]]
             ELSE task' = [task EXCEPT ![p] = [t1 EXCEPT !.resp = NOT_FOUND]]
  /\ UNCHANGED store

\* A commit that issues the delete again when it failed.
delete_session_commit_Retry(p, ok) ==
  /\ task[p].pc = "commit"
  /\ actor' = p
  /\ task[p].op = "delete_session"
  /\ LET t == task[p] IN
     /\ sessions' = IF ok THEN DeleteRow(sessions, t.found) ELSE sessions
     /\ task' = [task EXCEPT ![p] =
          [t EXCEPT !.pc = IF ok THEN "idle" ELSE "commit",
                    !.commit = IF ok THEN "ok" ELSE "err",
                    !.resp = IF ok THEN OK ELSE 0]]
  /\ UNCHANGED <<users, accounts, tokens>>

\* delete_session from session.delete().
delete_session_commit(p, ok) ==
  /\ task[p].pc = "commit"
  /\ actor' = p
  /\ task[p].op = "delete_session"
  /\ LET t == task[p] IN
     /\ sessions' = IF ok THEN DeleteRow(sessions, t.found) ELSE sessions
     /\ task' = [task EXCEPT ![p] =
          [t EXCEPT !.pc = "idle",
                    !.commit = IF ok THEN "ok" ELSE "err",
                    !.resp = IF ok THEN OK ELSE INTERNAL_SERVER_ERROR]]
  /\ UNCHANGED <<users, accounts, tokens>>

\* The body of get_session_and_user: the user, beside the session the task
\* holds in `found`.
UserAndSession(u) == [kind |-> "UserAndSession", users |-> {u}]

\* get_session_and_user up to its first await: the key "sessionToken" and the
\* lookup of the session; every failure of it is answered 204.
get_session_and_user(p, query, ok) ==
  /\ task[p].pc = "idle"
  /\ actor' = p
  /\ LET t == Begin("get_session_and_user", query, NoRow) IN
     IF query.sessionToken = NONE
     THEN task' = [task EXCEPT ![p] = [t EXCEPT !.resp = UNPROCESSABLE_ENTITY]]
     ELSE LET rows == IF ok
                      THEN {s \in sessions : s.session_token = query.sessionToken}
                      ELSE {}
              t1 == [t EXCEPT !.call = "session.find.session_token",
                              !.look = LookOutcome(ok, rows)]
          IN IF rows # {}
             THEN \E r \in rows : task' = [task EXCEPT ![p] =
                    [t1 EXCEPT !.pc = "join", !.found = r]]
             ELSE task' = [task EXCEPT ![p] = [t1 EXCEPT !.resp = NO_CONTENT]]
  /\ UNCHANGED store

\* get_session_and_user from its second await: the lookup of the session's
\* user by id (look now tells the outcome of this second lookup).
get_session_and_user_join(p, ok) ==
  /\ task[p].pc = "join"
  /\ actor' = p
  /\ task[p].op = "get_session_and_user"
  /\ LET t == task[p]
         rows == IF ok THEN FindById(users, t.found.user_id) ELSE {}
         t1 == [t EXCEPT !.pc = "idle",
                         !.call = "session.find.session_token, user.find_by_id",
                         !.look = LookOutcome(ok, rows)]
     IN IF rows # {}
        THEN task' = [task EXCEPT ![p] =
               [t1 EXCEPT !.resp = OK,
                          !.body = UserAndSession(CHOOSE u \in rows : TRUE)]]
        ELSE task' = [task EXCEPT ![p] = [t1 EXCEPT !.resp = NO_CONTENT]]
  /\ UNCHANGED store

\* ---------------------------------------------------------------- tokens
TokenRows == [id : TokenIds, identifier : Identifiers]

\* create_verif_token: insert the payload, 201 or 500.
create_verif_token(p, payload, ok) ==
  /\ task[p].pc = "idle"
  /\ actor' = p
  /\ LET done == ok /\ CanInsert(tokens, payload) IN
     /\ tokens' = IF done THEN tokens \cup {payload} ELSE tokens
     /\ task' = [task EXCEPT ![p] =
          [Begin("create_verif_token", EmptyQuery, payload) EXCEPT
             !.call = "verification_token.insert",
             !.commit = IF done THEN "ok" ELSE "err",
             !.resp = IF done THEN CREATED ELSE INTERNAL_SERVER_ERROR]]
  /\ UNCHANGED <<users, accounts, sessions>>

\* delete_verif_token up to its first await: the key is "id", matched
\* against the identifier column.
delete_verif_token(p, query, ok) ==
  /\ task[p].pc = "idle"
  /\ actor' = p
  /\ LET t == Begin("delete_verif_token", query, NoRow) IN
     IF query.id = NONE
     THEN task' = [task EXCEPT ![p] = [t EXCEPT !.resp = UNPROCESSABLE_ENTITY]]
     ELSE LET rows == IF ok
                      THEN {v \in tokens : v.identifier = query.id}
                      ELSE {}
              t1 == [t EXCEPT !.call = "verification_token.find.identifier",
                              !.look = LookOutcome(ok, rows)]
          IN IF rows # {}
             THEN \E r \in rows : task' = [task EXCEPT ![p] =
                    [t1 EXCEPT !.pc = "commit", !.found = r]]
             ELSE task' = [task EXCEPT ![p] = [t1 EXCEPT !.resp = NOT_FOUND]]
  /\ UNCHANGED store

\* delete_verif_token from verif_token.delete().
delete_verif_token_commit(p, ok) ==
  /\ task[p].pc = "commit"
  /\ actor' = p
  /\ task[p].op = "delete_verif_token"
  /\ LET t == task[p] IN
     /\ tokens' = IF ok THEN DeleteRow(tokens, t.found) ELSE tokens
     /\ task' = [task EXCEPT ![p] =
          [t EXCEPT !.pc = "idle",
                    !.commit = IF ok THEN "ok" ELSE "err",
                    !.resp = IF ok THEN OK ELSE INTERNAL_SERVER_ERROR]]
  /\ UNCHANGED <<users, accounts, sessions>>

\* ---------------------------------------------------------------- requests
\* No two rows of a table share the primary key.
UniqueIds(table) == \A r1, r2 \in table : r1.id = r2.id => r1 = r2

\* get_users's UserSearchQuery: four optional criteria.
UserSearchQueries ==
  {[EmptyQuery EXCEPT !.id = i, !.email = e, !.provider = n,
                      !.provider_account_id = a] :
     i \in Opt(UserIds), e \in Opt(Emails), n \in Opt(Providers),
     a \in Opt(AccountIds)}

TypeOK ==
  /\ users \subseteq UserRows /\ UniqueIds(users)
  /\ accounts \subseteq AccountRows /\ UniqueIds(accounts)
  /\ sessions \subseteq SessionRows /\ UniqueIds(sessions)
  /\ tokens \subseteq TokenRows /\ UniqueIds(tokens)
  /\ \A p \in Procs : task[p].pc \in {"idle", "commit", "join"}
  /\ actor \in Procs \cup {0}

\* ---------------------------------------------------------------- SpecRead
\* Reads of get_users against every content of the user and account tables
\* (users differ in their email only; the other optional columns are NULL).
ReadUserRows ==
  {u \in UserRows : u.name = NONE /\ u.email_verified = NONE /\ u.image = NONE}

\* get_users never reads the provider_account_id column: one value is enough.
ReadAccountRows == {a \in AccountRows : a.provider_account_id = "42"}

InitRead ==
  /\ users \in {t \in SUBSET ReadUserRows : UniqueIds(t)}
  /\ accounts \in {t \in SUBSET ReadAccountRows : UniqueIds(t)}
  /\ sessions = {}
  /\ tokens = {}
  /\ task = [p \in Procs |-> FreshTask]
  /\ actor = 0

NextRead == \E q \in UserSearchQueries, ok \in BOOLEAN : get_users(1, q, ok)

SpecRead == InitRead /\ [][NextRead]_vars

\* ---------------------------------------------------------------- Spec
\* Every handler, one request after another, from the empty store.  The
\* payloads are a few records of each entity.
Q(id, name, sessionToken) ==
  [EmptyQuery EXCEPT !.id = id, !.name = name, !.sessionToken = sessionToken]

BareUser(id) ==
  [id |-> id, name |-> NONE, email |-> NONE, email_verified |-> NONE, image |-> NONE]

NewUsers == {[BareUser(id) EXCEPT !.email = "a@x.com"] : id \in UserIds}
UserForms == {[BareUser("u1") EXCEPT !.name = "Bob"]}
NewAccounts ==
  {a \in AccountRows : a.provider = "google" /\ a.provider_account_id = "42"}
NewSessions ==
  {[id |-> "s1", session_token |-> "tokA", user_id |-> "u1", expires |-> "t1"]}
SessionForms ==
  {f \in SessionRows : f.session_token = "tokB" /\ f.expires = "t2"}
NewTokens == {[id |-> "v1", identifier |-> "a@x.com"]}
AccountQueries ==
  {q \in UserSearchQueries :
     q.id = NONE /\ q.email = NONE /\ q.provider # "github"}

Init ==
  /\ users = {}
  /\ accounts = {}
  /\ sessions = {}
  /\ tokens = {}
  /\ task = [p \in Procs |-> FreshTask]
  /\ actor = 0

Next ==
  \E ok \in BOOLEAN :
    \/ \E u \in NewUsers : create_user(1, u, ok)
    \/ \E q \in AccountQueries : get_users(1, q, ok)
    \/ \E id \in Opt(UserIds), f \in UserForms : update_user(1, Q(id, NONE, NONE), f, ok)
    \/ update_user_commit(1, ok)
    \/ \E id \in Opt(UserIds) : delete_user(1, Q(id, NONE, NONE), ok)
    \/ delete_user_commit(1, ok)
    \/ \E a \in NewAccounts : create_account(1, a, ok)
    \/ \E id \in Opt(AccountIds), n \in Opt({"google"}) : delete_account(1, Q(id, n, NONE), ok)
    \/ delete_account_commit(1, ok)
    \/ \E s \in NewSessions : create_session(1, s, ok)
    \/ \E id \in Opt(SessionIds), k \in Opt(SessionTokens), f \in SessionForms :
         update_session(1, Q(id, NONE, k), f, ok)
    \/ update_session_commit(1, ok)
    \/ \E id \in Opt(SessionIds), k \in Opt(SessionTokens) : delete_session(1, Q(id, NONE, k), ok)
    \/ delete_session_commit(1, ok)
    \/ \E k \in Opt(SessionTokens) : get_session_and_user(1, Q(NONE, NONE, k), ok)
    \/ get_session_and_user_join(1, ok)
    \/ \E v \in NewTokens : create_verif_token(1, v, ok)
    \/ \E id \in Opt(Identifiers) : delete_verif_token(1, Q(id, NONE, NONE), ok)
    \/ delete_verif_token_commit(1, ok)

Spec == Init /\ [][Next]_vars

\* ---------------------------------------------------------------- SpecUsers
\* The user handlers, one request after another, with every pattern of
\* present and absent form fields.
FullUser ==
  [id |-> "u1", name |-> "Al", email |-> "a@x.com", email_verified |-> "t1",
   image |-> NONE]

PatchForms ==
  [id : {"u1"}, name : Opt({"Bob"}), email : Opt({"b@x.com"}),
   email_verified : Opt({"t2"}), image : Opt({"img"})]

NextUsers ==
  \E ok \in BOOLEAN :
    \/ \E u \in {BareUser("u1"), FullUser} : create_user(1, u, ok)
    \/ \E id \in Opt(UserIds), f \in PatchForms : update_user(1, Q(id, NONE, NONE), f, ok)
    \/ update_user_commit(1, ok)
    \/ \E id \in Opt(UserIds) : delete_user(1, Q(id, NONE, NONE), ok)
    \/ delete_user_commit(1, ok)

SpecUsers == Init /\ [][NextUsers]_vars

\* ---------------------------------------------------------------- SpecRace
\* Requests on one user and one session, interleaved at their storage calls.
\* Inserts, updates and deletes may fail; the lookups answer (their failure
\* is part of Spec).
RaceSession ==
  [id |-> "s1", session_token |-> "tokA", user_id |-> "u1", expires |-> "t1"]

RaceSessionForms ==
  {[id |-> i, session_token |-> "tokB", user_id |-> "u1", expires |-> "t2"] :
     i \in SessionIds}

NextRace ==
  \E p \in Procs, ok \in BOOLEAN :
    \/ create_user(p, FullUser, ok)
    \/ \E f \in UserForms : update_user(p, Q("u1", NONE, NONE), f, TRUE)
    \/ update_user_commit(p, ok)
    \/ delete_user(p, Q("u1", NONE, NONE), TRUE)
    \/ delete_user_commit(p, ok)
    \/ create_session(p, RaceSession, ok)
    \/ \E f \in RaceSessionForms : update_session(p, Q("s1", NONE, NONE), f, TRUE)
    \/ update_session_commit(p, ok)
    \/ delete_session(p, Q(NONE, NONE, "tokA"), TRUE)
    \/ delete_session_commit(p, ok)

SpecRace == Init /\ [][NextRace]_vars

\* ---------------------------------------------------------------- SpecUpdates
\* Concurrent update_user requests on a stored user; the storage driver
\* performs every commit it is asked for (a lookup may still fail).
RaceForms ==
  [id : {"u1"}, name : {"Bob", "Cy"}, email : Opt({"b@x.com"}),
   email_verified : {NONE}, image : {NONE}]

InitUpdates ==
  /\ users = {FullUser}
  /\ accounts = {}
  /\ sessions = {}
  /\ tokens = {}
  /\ task = [p \in Procs |-> FreshTask]
  /\ actor = 0

NextUpdates ==
  \E p \in Procs :
    \/ \E f \in RaceForms, ok \in BOOLEAN : update_user(p, Q("u1", NONE, NONE), f, ok)
    \/ update_user_commit(p, TRUE)

SpecUpdates == InitUpdates /\ [][NextUpdates]_vars

\* ---------------------------------------------------------------- SpecDeletes
\* Creates and deletes of every entity, one request after another.  Two
\* accounts may share (provider, provider_account_id), two sessions the
\* session token and two verification tokens the identifier.
DelSessions ==
  {[id |-> i, session_token |-> "tokA", user_id |-> "u1", expires |-> "t1"] :
     i \in SessionIds}
DelTokens == {[id |-> i, identifier |-> "a@x.com"] : i \in TokenIds}

NextDeletes ==
  \E ok \in BOOLEAN :
    \/ \E u \in NewUsers : create_user(1, u, ok)
    \/ \E id \in Opt(UserIds) : delete_user(1, Q(id, NONE, NONE), ok)
    \/ delete_user_commit(1, ok)
    \/ \E a \in NewAccounts : create_account(1, a, ok)
    \/ \E id \in Opt({"42"}), n \in Opt({"google"}) : delete_account(1, Q(id, n, NONE), ok)
    \/ delete_account_commit(1, ok)
    \/ \E x \in DelSessions : create_session(1, x, ok)
    \/ \E k \in Opt({"tokA"}) : delete_session(1, Q(NONE, NONE, k), ok)
    \/ delete_session_commit(1, ok)
    \/ \E v \in DelTokens : create_verif_token(1, v, ok)
    \/ \E id \in Opt({"a@x.com"}) : delete_verif_token(1, Q(id, NONE, NONE), ok)
    \/ delete_verif_token_commit(1, ok)

SpecDeletes == Init /\ [][NextDeletes]_vars

\* ---------------------------------------------------------------- SpecCreateRead
\* Users created, deleted and read back, one request after another; users
\* may share an email or have none.
CreateReadUsers ==
  {[BareUser(id) EXCEPT !.email = e] : id \in UserIds, e \in Opt(Emails)}

UserKeyQueries ==
  {q \in UserSearchQueries : q.provider = NONE /\ q.provider_account_id = NONE}

NextCreateRead ==
  \E ok \in BOOLEAN :
    \/ \E u \in CreateReadUsers : create_user(1, u, ok)
    \/ \E q \in UserKeyQueries : get_users(1, q, ok)
    \/ \E id \in Opt(UserIds) : delete_user(1, Q(id, NONE, NONE), ok)
    \/ delete_user_commit(1, ok)

SpecCreateRead == Init /\ [][NextCreateRead]_vars

\* ---------------------------------------------------------------- SpecIdentity
\* update_user against two stored users, with forms whose id field names
\* either of them.
IdentityForms ==
  [id : UserIds, name : Opt({"Bob"}), email : Opt({"b@x.com"}),
   email_verified : {NONE}, image : {NONE}]

InitIdentity ==
  /\ users = {FullUser, BareUser("u2")}
  /\ accounts = {}
  /\ sessions = {}
  /\ tokens = {}
  /\ task = [p \in Procs |-> FreshTask]
  /\ actor = 0

NextIdentity ==
  \E ok \in BOOLEAN :
    \/ \E id \in Opt(UserIds), f \in IdentityForms :
         update_user(1, Q(id, NONE, NONE), f, ok)
    \/ update_user_commit(1, ok)

SpecIdentity == InitIdentity /\ [][NextIdentity]_vars

\* ---------------------------------------------------------------- SpecSessions
\* update_session against up to two stored sessions, with forms whose id
\* field names either of them.
NextSessions ==
  \E ok \in BOOLEAN :
    \/ \E x \in DelSessions : create_session(1, x, ok)
    \/ \E id \in Opt(SessionIds), f \in SessionForms :
         update_session(1, Q(id, NONE, NONE), f, ok)
    \/ update_session_commit(1, ok)

SpecSessions == Init /\ [][NextSessions]_vars

\* ---------------------------------------------------------------- claims
\* The lookup the priority order id, email, provider+provider_account_id,
\* provider_account_id, provider, none selects for a criteria bag.
ExpectedLookup(q) ==
  CASE q.id # NONE -> "user.find_by_id"
    [] q.id = NONE /\ q.email # NONE -> "user.find.email"
    [] q.id = NONE /\ q.email = NONE /\ q.provider # NONE
         /\ q.provider_account_id # NONE -> "account.find.id+provider"
    [] q.id = NONE /\ q.email = NONE /\ q.provider = NONE
         /\ q.provider_account_id # NONE -> "account.find.id"
    [] q.id = NONE /\ q.email = NONE /\ q.provider # NONE
         /\ q.provider_account_id = NONE -> "account.find.provider"
    [] OTHER -> "user.find.all"

\* C1: get_users issues exactly the one lookup that is first applicable in
\* the order id, email, provider+provider_account_id, provider_account_id,
\* provider, none; and when id is present the answer is that of the id lookup
\* alone whatever the other criteria are: Single of the user with that id
\* when it exists, no-content when it does not, never a list obtained from a
\* later criterion.
C1_FirstCriterionDecides ==
  \A p \in Procs :
    task[p].op = "get_users" =>
      LET t == task[p]
          byId == FindById(users, t.query.id)
      IN /\ t.call = ExpectedLookup(t.query)
         /\ t.query.id # NONE =>
              /\ t.body.kind # "Multiple"
              /\ (t.look # "err" /\ byId # {}) => (t.resp = OK /\ t.body = Single(CHOOSE u \in byId : TRUE))
              /\ (t.look # "err" /\ byId = {}) => (t.resp = NO_CONTENT /\ t.body = NoBody)

\* C1 witness: id names no user while the email names a stored user and the
\* account criteria are given too; the answer is no-content, from the id
\* lookup.
C1_Witness ==
  \E p \in Procs :
    /\ task[p].op = "get_users"
    /\ task[p].query.id # NONE /\ FindById(users, task[p].query.id) = {}
    /\ \E u \in users : u.email = task[p].query.email
    /\ task[p].query.provider # NONE /\ task[p].query.provider_account_id # NONE
    /\ task[p].look = "empty"
    /\ task[p].resp = NO_CONTENT

\* C2: in get_users a storage error of the lookup is answered with the
\* internal-error outcome, in each of the six strategies, and never with the
\* no-content outcome of 'no matching record'.
C2_LookupErrorIsInternalError ==
  \A p \in Procs :
    (task[p].op = "get_users" /\ task[p].look = "err") =>
      task[p].resp = INTERNAL_SERVER_ERROR

\* The columns of a user that update_user may write.
UserFields == {"name", "email", "email_verified", "image"}

\* A task p answers its request in this step.
Answers(p) == actor' = p /\ task'[p].pc = "idle"

\* The commit step of handler op is taken by task p in this step.
Commits(p, op) ==
  actor' = p /\ task[p].op = op /\ task[p].pc = "commit" /\ task'[p].pc = "idle"

\* C3: a successful update_user sets each of name, email, email_verified and
\* image to the form's value when the form carries one, and leaves each
\* column the form does not carry as it was stored before (never NULL in
\* place of a value); so an update of the email after one of the name leaves
\* both new values.
C3_PatchWritesOnlyPresentFields ==
  [][\A p \in Procs :
       (Commits(p, "update_user") /\ task'[p].resp = OK) =>
         \E u \in users, v \in users' :
           /\ u.id = task[p].query.id
           /\ v.id = u.id
           /\ \A f \in UserFields :
                v[f] = IF task[p].form[f] # NONE THEN task[p].form[f] ELSE u[f]]_vars

\* C3 witness: an update carrying only the email has succeeded on a user
\* whose name an earlier update set; name and verification stamp are kept.
C3_Witness ==
  \E p \in Procs, u \in users :
    /\ task[p].op = "update_user" /\ task[p].pc = "idle" /\ task[p].resp = OK
    /\ task[p].form.name = NONE /\ task[p].form.email = "b@x.com"
    /\ task[p].form.email_verified = NONE
    /\ u.id = task[p].query.id
    /\ u.name = "Bob" /\ u.email = "b@x.com" /\ u.email_verified = "t1"

\* The handlers that update or delete.
WriteOps ==
  {"update_user", "delete_user", "delete_account", "update_session",
   "delete_session", "delete_verif_token"}

\* The key parameter each of them requires is missing from the query
\* (update_session reads the key "id", see C6).
KeyAbsent(t) ==
  CASE t.op = "delete_account" -> t.query.id = NONE \/ t.query.name = NONE
    [] t.op = "delete_session" -> t.query.sessionToken = NONE
    [] OTHER -> t.query.id = NONE

C5_ReadUsesTheCompositeKey ==
  \A p \in Procs :
    LET t == task[p]
        keyed == {a \in accounts : /\ a.provider = t.query.provider
                                   /\ a.provider_account_id = t.query.provider_account_id}
        owned == {a \in keyed : RelatedUsers(a) # {}}
    IN (/\ t.op = "get_users"
        /\ t.query.id = NONE /\ t.query.email = NONE
        /\ t.query.provider # NONE /\ t.query.provider_account_id # NONE
        /\ t.look # "err") =>
         /\ owned # {} =>
              /\ t.resp = OK /\ t.body.kind = "Multiple"
              /\ \E a \in owned : RelatedUsers(a) \subseteq t.body.users
         /\ keyed = {} => t.resp = NO_CONTENT

\* C6: update_session is keyed by the session token: it is answered
\* Unprocessable only when the sessionToken parameter is absent, and
\* not-found only when no stored session has that token.
C6_UpdateSessionKeyedByToken ==
  \A p \in Procs :
    LET t == task[p] IN
    (t.op = "update_session" /\ t.pc = "idle") =>
      /\ t.resp = UNPROCESSABLE_ENTITY => t.query.sessionToken = NONE
      /\ (t.resp = NOT_FOUND /\ t.look # "err") =>
           ~ \E s \in sessions : s.session_token = t.query.sessionToken

\* C7: a write operation ends Committed, NotFound, Unprocessable or
\* InternalError; a storage failure of its lookup ends in InternalError, and
\* NotFound is reached only when the lookup succeeded and found no record.
C7_LookupFailureIsInternalError ==
  \A p \in Procs :
    LET t == task[p] IN
    (t.op \in WriteOps /\ t.pc = "idle") =>
      /\ t.resp \in {OK, NOT_FOUND, UNPROCESSABLE_ENTITY, INTERNAL_SERVER_ERROR}
      /\ t.look = "err" => t.resp = INTERNAL_SERVER_ERROR
      /\ t.resp = NOT_FOUND => t.look = "empty"

\* C8: a row enters the users or the sessions table only in the step of a
\* successful create of that very record; no update inserts or re-creates
\* one, also not an update whose record a concurrent delete removed between
\* its lookup and its commit.
C8_OnlyCreateInserts ==
  [][/\ \A u \in users' :
          FindById(users, u.id) = {} =>
            \E p \in Procs : /\ Answers(p) /\ task'[p].op = "create_user"
                             /\ task'[p].resp = CREATED /\ task'[p].form = u
     /\ \A s \in sessions' :
          FindById(sessions, s.id) = {} =>
            \E p \in Procs : /\ Answers(p) /\ task'[p].op = "create_session"
                             /\ task'[p].resp = CREATED /\ task'[p].form = s]_vars

\* C8 witness: update_user has looked the user up and is about to commit,
\* and a delete_user that found the same user has completed: the row is gone.
C8_Witness ==
  \E p, q \in Procs :
    /\ task[p].op = "update_user" /\ task[p].pc = "commit"
    /\ task[q].op = "delete_user" /\ task[q].pc = "idle" /\ task[q].resp = OK
    /\ task[q].found.id = task[p].found.id
    /\ FindById(users, task[p].found.id) = {}

\* C9: update_user requests on the same stored user, interleaved in any
\* order, each return OK, and the commit of each stores its value in every
\* column its form sets: for a column both set, the stored value is that of
\* the commit that came last.
C9_LastCommitWins ==
  [][\A p \in Procs :
       Commits(p, "update_user") =>
         /\ task'[p].resp = OK
         /\ \E v \in users' :
              /\ v.id = task[p].found.id
              /\ \A f \in UserFields :
                   task[p].form[f] # NONE => v[f] = task[p].form[f]]_vars

\* C9 witness: two updates that both looked the user up before either
\* committed (both read the name "Al") set different names; both returned OK
\* and the stored name is one of the two.
C9_Witness ==
  \E p, q \in Procs, u \in users :
    /\ p # q
    /\ task[p].op = "update_user" /\ task[p].pc = "idle" /\ task[p].resp = OK
    /\ task[q].op = "update_user" /\ task[q].pc = "idle" /\ task[q].resp = OK
    /\ task[p].found.name = "Al" /\ task[q].found.name = "Al"
    /\ task[p].form.name = "Bob" /\ task[q].form.name = "Cy"
    /\ u.id = "u1" /\ u.name = "Cy"

DeleteOps == {"delete_user", "delete_account", "delete_session", "delete_verif_token"}

\* The rows a step takes out of a table are at most the row the task found.
RemovesAtMostFound(p, table, tableAfter) ==
  /\ tableAfter \subseteq table
  /\ \A r \in table \ tableAfter : r = task[p].found

\* C11: a delete removes at most the one record its lookup selected and
\* leaves the tables of the other entities as they are: delete_user changes
\* no account, session or verification token (also when the user owns some),
\* delete_account no user or session, delete_session no user or account; and
\* the lookup step of a delete changes nothing.
C11_DeleteTouchesOneRecord ==
  [][\A p \in Procs :
       /\ (actor' = p /\ task[p].pc = "idle" /\ task'[p].op \in DeleteOps) =>
            store' = store
       /\ Commits(p, "delete_user") =>
            /\ RemovesAtMostFound(p, users, users')
            /\ accounts' = accounts /\ sessions' = sessions /\ tokens' = tokens
       /\ Commits(p, "delete_account") =>
            /\ RemovesAtMostFound(p, accounts, accounts')
            /\ users' = users /\ sessions' = sessions /\ tokens' = tokens
       /\ Commits(p, "delete_session") =>
            /\ RemovesAtMostFound(p, sessions, sessions')
            /\ users' = users /\ accounts' = accounts /\ tokens' = tokens
       /\ Commits(p, "delete_verif_token") =>
            /\ RemovesAtMostFound(p, tokens, tokens')
            /\ users' = users /\ accounts' = accounts /\ sessions' = sessions]_vars

\* C11 witness: delete_user has removed a user, and an account and a session
\* of that user are still stored.
C11_Witness ==
  \E p \in Procs :
    /\ task[p].op = "delete_user" /\ task[p].pc = "idle" /\ task[p].resp = OK
    /\ FindById(users, task[p].found.id) = {}
    /\ \E a \in accounts : a.user_id = task[p].found.id
    /\ \E x \in sessions : x.user_id = task[p].found.id

\* A criteria bag with no criterion.
NoCriteria(q) ==
  q.id = NONE /\ q.email = NONE /\ q.provider = NONE /\ q.provider_account_id = NONE

\* C12: whatever the store holds, get_users with no criterion (and a lookup
\* that did not fail) answers OK with Multiple of exactly the stored users,
\* as many as are stored; an empty table gives an empty list, not no-content.
C12_NoCriteriaListsEveryUser ==
  \A p \in Procs :
    (/\ task[p].op = "get_users" /\ task[p].pc = "idle"
     /\ NoCriteria(task[p].query)
     /\ task[p].look # "err") =>
      /\ task[p].resp = OK
      /\ task[p].body = Multiple(users)
      /\ Cardinality(task[p].body.users) = Cardinality(users)

\* C12 witness: the list of an empty user table, and the list of a full one.
C12_Witness ==
  \E p \in Procs :
    /\ task[p].op = "get_users" /\ NoCriteria(task[p].query)
    /\ task[p].resp = OK /\ task[p].body.kind = "Multiple"
    /\ users = {} /\ task[p].body.users = {}

\* Whether the store holds a record the key of a delete request selects.
KeySelectsSome(op, q) ==
  CASE op = "delete_user" -> FindById(users, q.id) # {}
    [] op = "delete_account" ->
         \E a \in accounts : a.provider_account_id = q.id /\ a.provider = q.name
    [] op = "delete_session" -> \E x \in sessions : x.session_token = q.sessionToken
    [] op = "delete_verif_token" -> \E v \in tokens : v.identifier = q.id

\* Whether the store holds the record a delete found.
StillStored(op, row) ==
  CASE op = "delete_user" -> row \in users
    [] op = "delete_account" -> row \in accounts
    [] op = "delete_session" -> row \in sessions
    [] op = "delete_verif_token" -> row \in tokens

\* A task whose delete was answered OK sends the same delete again, as the
\* very next request, and the lookup does not fail.
DeletesAgain(p, op) ==
  /\ actor = p /\ actor' = p
  /\ task[p].op = op /\ task[p].pc = "idle" /\ task[p].resp = OK
  /\ task'[p].op = op /\ task'[p].query = task[p].query
  /\ task'[p].look # "err"

\* C13 as stated: for every delete operation, the first delete with the key
\* of an existing record answers OK and removes the record, and a second
\* delete with the same key, with no create in between, answers NotFound and
\* leaves the store unchanged.
C13_SecondDeleteIsNotFound ==
  [][\A p \in Procs : \A op \in DeleteOps :
       /\ (Commits(p, op) /\ task'[p].commit = "ok") =>
            (task'[p].resp = OK /\ ~StillStored(op, task[p].found)')
       /\ DeletesAgain(p, op) =>
            /\ task'[p].pc = "idle"
            /\ task'[p].resp = NOT_FOUND
            /\ store' = store]_vars

\* C13 amended: the first delete answers OK and removes the record it found;
\* a second delete with the same key answers NotFound and leaves the store
\* unchanged provided no other stored record has that key.
C13_SecondDeleteOfSoleRecordIsNotFound ==
  [][\A p \in Procs : \A op \in DeleteOps :
       /\ (Commits(p, op) /\ task'[p].commit = "ok") =>
            (task'[p].resp = OK /\ ~StillStored(op, task[p].found)')
       /\ (DeletesAgain(p, op) /\ ~KeySelectsSome(op, task[p].query)) =>
            /\ task'[p].pc = "idle"
            /\ task'[p].resp = NOT_FOUND
            /\ store' = store]_vars

\* C13 witness: delete_account has removed the account it found and no
\* other stored account has the key, so that the same delete sent again
\* selects nothing; the owner of the removed account is still stored.
C13_Witness ==
  \E p \in Procs :
    /\ actor = p
    /\ task[p].op = "delete_account" /\ task[p].pc = "idle"
    /\ task[p].commit = "ok" /\ task[p].resp = OK
    /\ ~StillStored("delete_account", task[p].found)
    /\ ~KeySelectsSome("delete_account", task[p].query)
    /\ \E u \in users : u.id = task[p].found.user_id

\* The handlers that create.
CreateOps == {"create_user", "create_account", "create_session", "create_verif_token"}

\* Whether the store holds the record a create was given.
Persisted(op, row) ==
  CASE op = "create_user" -> row \in users
    [] op = "create_account" -> row \in accounts
    [] op = "create_session" -> row \in sessions
    [] op = "create_verif_token" -> row \in tokens

\* C14 as stated: a create whose insertion succeeded answers with the
\* persisted record in the response and the store holds the record; a create
\* whose insertion failed answers an internal error.
C14_CreateAnswersThePersistedRecord ==
  \A p \in Procs :
    (actor = p /\ task[p].op \in CreateOps /\ task[p].pc = "idle") =>
      IF task[p].commit = "ok"
      THEN /\ task[p].resp = CREATED
           /\ Persisted(task[p].op, task[p].form)
           /\ task[p].body.kind # NONE
      ELSE task[p].resp = INTERNAL_SERVER_ERROR

\* C15 as stated: delete_verif_token with the identifier of a stored token
\* removes the token and answers with the deleted record.
C15_DeleteTokenAnswersTheRecord ==
  \A p \in Procs :
    (/\ actor = p /\ task[p].op = "delete_verif_token" /\ task[p].pc = "idle"
     /\ task[p].commit = "ok") =>
      /\ task[p].resp = OK
      /\ task[p].found.identifier = task[p].query.id
      /\ task[p].found \notin tokens
      /\ task[p].body.kind # NONE

\* C16 as stated: get_session_and_user answers Unprocessable without the
\* token parameter, internal-error when a lookup failed, no-content when the
\* session or its user is missing, and otherwise the pair of the session
\* with that token and the user with the session's user_id.
C16_SessionAndUserOutcomes ==
  \A p \in Procs :
    (task[p].op = "get_session_and_user" /\ task[p].pc = "idle") =>
      IF task[p].query.sessionToken = NONE THEN task[p].resp = UNPROCESSABLE_ENTITY
      ELSE IF task[p].look = "err" THEN task[p].resp = INTERNAL_SERVER_ERROR
      ELSE IF task[p].look = "empty" THEN task[p].resp = NO_CONTENT
      ELSE /\ task[p].resp = OK
           /\ task[p].found.session_token = task[p].query.sessionToken
           /\ \E u \in users : /\ u.id = task[p].found.user_id
                               /\ task[p].body = UserAndSession(u)

\* A form with none of the four patchable fields.
AllAbsent(form) == \A f \in UserFields : form[f] = NONE

\* C17: update_user of a stored user with a form whose name, email,
\* email_verified and image are all absent leaves the user record, and every
\* other record, as it was, and answers OK (unless the storage call fails).
C17_EmptyPatchChangesNothing ==
  [][\A p \in Procs :
       (Commits(p, "update_user") /\ AllAbsent(task[p].form)) =>
         /\ store' = store
         /\ task[p].found \in users => task[p].found \in users'
         /\ task'[p].commit = "ok" => task'[p].resp = OK]_vars

\* C17 witness: an all-absent patch of the stored user with every column
\* filled was answered OK, and that user is stored as before.
C17_Witness ==
  \E p \in Procs :
    /\ task[p].op = "update_user" /\ task[p].pc = "idle" /\ task[p].resp = OK
    /\ AllAbsent(task[p].form)
    /\ task[p].found = FullUser
    /\ FullUser \in users

\* C18: a create_user answered 201 has stored its user; and for every stored
\* user u, a get_users whose lookup did not fail answers Single(u) when
\* asked for u's id, Single(u) when asked for u's email alone and no other
\* stored user has that email, and a list that includes u when asked with
\* no criteria.
C18_CreatedUserIsReadBack ==
  [][\A p \in Procs :
       /\ (actor' = p /\ task'[p].op = "create_user" /\ task'[p].resp = CREATED) =>
            task'[p].form \in users'
       /\ (actor' = p /\ task'[p].op = "get_users" /\ task'[p].look # "err") =>
            \A u \in users :
              LET q == task'[p].query IN
              /\ q.id = u.id =>
                   (task'[p].resp = OK /\ task'[p].body = Single(u))
              /\ (/\ q.id = NONE /\ q.email # NONE /\ q.email = u.email
                  /\ \A v \in users : v.email = u.email => v = u) =>
                   (task'[p].resp = OK /\ task'[p].body = Single(u))
              /\ NoCriteria(q) =>
                   (task'[p].resp = OK /\ u \in task'[p].body.users)]_vars

\* C18 witness: a user read back by its email, which no other stored user
\* has, while a second user is stored.
C18_Witness ==
  \E p \in Procs, u \in users :
    /\ task[p].op = "get_users"
    /\ task[p].query.id = NONE /\ task[p].query.email = u.email
    /\ task[p].resp = OK /\ task[p].body = Single(u)
    /\ \E v \in users : v.id # u.id /\ v.email # u.email

\* C19: a successful update_user changes no user other than the one its
\* query id names: that record keeps its id, the record the form's id field
\* names (when different) and all other records stay as they were.
C19_UpdateKeepsTheIdentityKey ==
  [][\A p \in Procs :
       (Commits(p, "update_user") /\ task'[p].resp = OK) =>
         LET k == task[p].query.id IN
         /\ \A r \in users : r.id # k => r \in users'
         /\ \A r \in users' : r.id # k => r \in users
         /\ \E r \in users' : r.id = k
         /\ Cardinality(users') = Cardinality(users)
         /\ <<accounts', sessions', tokens'>> = <<accounts, sessions, tokens>>]_vars

\* C19 witness: an update keyed u1 whose form carries id u2 and a new name
\* was answered OK; u1 has the new name and u2 is as it was.
C19_Witness ==
  \E p \in Procs :
    /\ task[p].op = "update_user" /\ task[p].pc = "idle" /\ task[p].resp = OK
    /\ task[p].query.id = "u1" /\ task[p].form.id = "u2"
    /\ task[p].form.name = "Bob"
    /\ \E r \in users : r.id = "u1" /\ r.name = "Bob"
    /\ BareUser("u2") \in users

\* The accounts the account criteria of a bag select.
AccountsMatching(q) ==
  {a \in accounts :
     /\ q.provider # NONE => a.provider = q.provider
     /\ q.provider_account_id # NONE => a.provider_account_id = q.provider_account_id}

\* C20 as stated: in the three account strategies of get_users (lookup not
\* failing), when one or more accounts match the criteria the answer is
\* Multiple of the users of the first matched account, also when several
\* match; and the answer is no-content exactly when no account matches.
C20_FirstMatchedAccountDecides ==
  \A p \in Procs :
    (/\ task[p].op = "get_users" /\ task[p].pc = "idle"
     /\ task[p].query.id = NONE /\ task[p].query.email = NONE
     /\ ~NoCriteria(task[p].query)
     /\ task[p].look # "err") =>
      LET rows == AccountsMatching(task[p].query) IN
      /\ rows # {} =>
           /\ task[p].resp = OK
           /\ task[p].body = Multiple(RelatedUsers(FirstAccount(rows)))
      /\ rows = {} <=> task[p].resp = NO_CONTENT

\* C21 as stated: a successful update_session replaces the session its
\* lookup found by the payload (id, user_id, expires and session_token, also
\* when the payload's id differs from the stored id) and leaves every other
\* stored session unchanged.
C21_UpdateReplacesTheFoundSession ==
  [][\A p \in Procs :
       (Commits(p, "update_session") /\ task'[p].resp = OK) =>
         LET old == task[p].found
             f == task[p].form
         IN /\ f \in sessions'
            /\ old.id # f.id => old \notin sessions'
            /\ \A r \in sessions : r # old => r \in sessions'
            /\ Cardinality(sessions') = Cardinality(sessions)]_vars

\* A step of task p that starts a request: the first storage call, if any,
\* is a lookup or, for a create, the insert; never both, and the request
\* goes on only after a lookup that found a record.
FirstCallOf(p) ==
  /\ ~(task'[p].look # NONE /\ task'[p].commit # NONE)
  /\ task'[p].commit # NONE <=> task'[p].op \in CreateOps
  /\ task'[p].pc # "idle" => task'[p].look = "found"

\* A step of task p never re-issues a failed call, and the request has its
\* one outcome exactly when it has ended.
NoCallAgain(p) ==
  /\ (task'[p].look = "err" \/ task'[p].commit = "err") => task'[p].pc = "idle"
  /\ task'[p].pc = "idle" <=> task'[p].resp # 0

\* C22 as stated: every request ends with one outcome after at most one
\* lookup call and at most one mutation call; the mutation follows a lookup
\* that found a record (a create issues the insert only), so the only call
\* after the lookup is the mutation; a failed call is never issued again.
C22_OneLookupOneMutation ==
  [][\A p \in Procs : actor' = p =>
       /\ task[p].pc = "idle" => FirstCallOf(p)
       /\ task[p].pc # "idle" =>
            /\ task[p].pc = "commit"
            /\ task[p].look = "found"
            /\ task'[p].commit # NONE
            /\ task'[p].pc = "idle"
       /\ NoCallAgain(p)]_vars

\* C22 amended: as stated, except that get_session_and_user issues a second
\* lookup (the user of the session) after its first lookup found the
\* session, and no mutation.
C22_NoRetry ==
  [][\A p \in Procs : actor' = p =>
       /\ task[p].pc = "idle" => FirstCallOf(p)
       /\ task[p].pc # "idle" =>
            /\ task[p].look = "found"
            /\ task'[p].pc = "idle"
            /\ IF task[p].pc = "commit"
               THEN task'[p].commit # NONE /\ task'[p].look = task[p].look
               ELSE /\ task[p].pc = "join"
                    /\ task[p].op = "get_session_and_user"
                    /\ task'[p].commit = NONE
                    /\ store' = store
       /\ NoCallAgain(p)]_vars

\* C22 witness: the second lookup of get_session_and_user failed and the
\* request ended there, with its one outcome.
C22_Witness ==
  \E p \in Procs :
    /\ task[p].op = "get_session_and_user" /\ task[p].pc = "idle"
    /\ task[p].found \in sessions
    /\ task[p].look = "err" /\ task[p].commit = NONE
    /\ task[p].resp = NO_CONTENT

====
